---- MODULE Spec2Model ----
(***************************************************************************)
(* Model of app/app.py: a multi-user to-do list.  The user store is one    *)
(* JSON file (users.json), every user has one JSON file of todo items      *)
(* (todos/user_<id>.json), and the login state of a browser is the user id *)
(* kept in its session.  Strings are sequences of one-character strings,   *)
(* so that strip(), lower() and str() are computed as Python computes      *)
(* them.  A Python dict is a sequence of entries in insertion order.       *)
(***************************************************************************)
EXTENDS Integers, Sequences, FiniteSets, TLC

VARIABLES
    usersFile,   \* users.json: NoFile, or the dict of users as a sequence of entries
    todoFiles,   \* the files of the todos directory: path -> list of todo items
    session,     \* per client: the user id its session holds, or None
    resp,        \* the response to the last request
    pc,          \* per client: where its todo request in flight stands
    local,       \* per client: the local variables of its todo request in flight
    addedTexts,  \* history: per user id, the texts added under that user's session
    assignedIds, \* history: per user id, the ids that add_todo has given out
    registered   \* history: the forms register accepted, each with the id it gave

vars == <<usersFile, todoFiles, session, resp, pc, local, addedTexts, assignedIds, registered>>

\* ------------------------------------------------------------------ bounds

\* add_todo is not modelled beyond this id (its ids grow without bound).
MaxId == 2

\* ----------------------------------------------------------------- strings

UpperCase == <<"A","B","C","D","E","F","G","H","I","J","K","L","M",
               "N","O","P","Q","R","S","T","U","V","W","X","Y","Z">>
LowerCase == <<"a","b","c","d","e","f","g","h","i","j","k","l","m",
               "n","o","p","q","r","s","t","u","v","w","x","y","z">>
Digits == <<"0","1","2","3","4","5","6","7","8","9">>
Whitespace == {" ", "\t", "\n", "\r"}

\* str.lower() on one character
LowerChar(ch) ==
    IF \E i \in DOMAIN UpperCase : UpperCase[i] = ch
    THEN LowerCase[CHOOSE i \in DOMAIN UpperCase : UpperCase[i] = ch]
    ELSE ch

\* str.lower()
Lower(s) == [i \in DOMAIN s |-> LowerChar(s[i])]

\* Strip with the trailing whitespace kept, as lstrip() would
Strip_Leading(s) ==
    LET keep == {i \in DOMAIN s : s[i] \notin Whitespace}
    IN  IF keep = {} THEN <<>>
        ELSE SubSeq(s, CHOOSE i \in keep : \A j \in keep : i <= j, Len(s))

\* str.strip(): drops the leading and the trailing whitespace
Strip(s) ==
    LET keep == {i \in DOMAIN s : s[i] \notin Whitespace}
    IN  IF keep = {} THEN <<>>
        ELSE LET lo == CHOOSE i \in keep : \A j \in keep : i <= j
                 hi == CHOOSE i \in keep : \A j \in keep : j <= i
             IN  SubSeq(s, lo, hi)

\* str(n) for n >= 0: the decimal digits
RECURSIVE Str(_)
Str(n) ==
    IF n < 10 THEN <<Digits[n + 1]>>
    ELSE Str(n \div 10) \o <<Digits[(n % 10) + 1]>>

\* ------------------------------------------------------------- the stores

\* No user id: the None of the code, which it tests by truth like the empty string
None == <<>>
NoFile == [exists |-> FALSE]
Anonymous == [is_authenticated |-> FALSE]
Clients == {"c1", "c2"}

\* The ids register can give out with the usernames the model enumerates.
UserIds == {Str(1), Str(2), Str(3)}

\* load_users(): the dict of the file, {} when there is no file
load_users == IF usersFile.exists THEN usersFile.data ELSE <<>>

\* users[key], for a key of the dict
UserEntry(users, key) == users[CHOOSE i \in DOMAIN users : users[i].key = key]

UserKeys(users) == {users[i].key : i \in DOMAIN users}

\* users[key] = value: replaces the entry of an existing key, else appends
DictSet(users, key, value) ==
    LET entry == [key |-> key, value |-> value]
    IN  IF key \in UserKeys(users)
        THEN [i \in DOMAIN users |-> IF users[i].key = key THEN entry ELSE users[i]]
        ELSE Append(users, entry)

\* save_users(users): the file afterwards
save_users(users) == [exists |-> TRUE, data |-> users]

\* load_user(user_id) of the login manager: the User of the id, None when unknown
load_user(user_id) ==
    IF user_id \in UserKeys(load_users)
    THEN [is_authenticated |-> TRUE, id |-> user_id,
          username |-> UserEntry(load_users, user_id).value.username,
          password_hash |-> UserEntry(load_users, user_id).value.password_hash]
    ELSE Anonymous

\* current_user that falls back to the first stored user for a client without a session
current_user_Default(c) == load_user(IF session[c] = None THEN Str(1) ELSE session[c])

\* current_user of a request of client c: the User its session names, else anonymous
current_user(c) == IF session[c] = None THEN Anonymous ELSE load_user(session[c])

is_authenticated(user) == user.is_authenticated

\* TodoPath without the user id in the file name
TodoPath_Shared(id) == <<"t","o","d","o","s","/","u","s","e","r",".","j","s","o","n">>

\* os.path.join(TODOS_DIR, f'user_{id}.json')
TodoPath(id) == <<"t","o","d","o","s","/","u","s","e","r","_">> \o id \o <<".","j","s","o","n">>

\* load_todos() for the request's user
load_todos(user) ==
    IF ~is_authenticated(user) THEN <<>>
    ELSE IF TodoPath(user.id) \in DOMAIN todoFiles THEN todoFiles[TodoPath(user.id)]
    ELSE <<>>

\* save_todos(todos) for the request's user: the files afterwards
save_todos(user, todos) ==
    IF ~is_authenticated(user) THEN todoFiles
    ELSE [p \in DOMAIN todoFiles \cup {TodoPath(user.id)} |->
            IF p = TodoPath(user.id) THEN todos ELSE todoFiles[p]]

\* ------------------------------------------------------- password hashing

Salts == {"s1", "s2"}

\* generate_password_hash(password) with the salt it drew: the salted digest is
\* taken to be collision free, and is written as the pair it is computed from
generate_password_hash(password, salt) ==
    [method |-> "scrypt", salt |-> salt, digest |-> <<salt, password>>]

\* check_password_hash that compares ignoring the case of the password
check_password_hash_NoCase(pwhash, password) ==
    Lower(generate_password_hash(password, pwhash.salt).digest[2]) = Lower(pwhash.digest[2])

\* check_password_hash(pwhash, password): hashes the password with the salt of
\* the stored hash and compares the digests
check_password_hash(pwhash, password) ==
    generate_password_hash(password, pwhash.salt).digest = pwhash.digest

\* --------------------------------------------------------------- responses

Redirect(to) == [kind |-> "redirect", to |-> to]
Render(template, error) == [kind |-> "render", template |-> template, error |-> error]
NoError == "None"

\* @login_required, with login_manager.login_view = 'login': the request of an
\* anonymous client is answered by a redirect to login that carries the path
\* asked for, and the view does not run
Unauthorized(c, path) ==
    /\ ~is_authenticated(current_user(c))
    /\ resp' = [kind |-> "redirect", to |-> "login", next |-> path]
    /\ UNCHANGED <<usersFile, todoFiles, session, pc, local, addedTexts, assignedIds, registered>>

\* ------------------------------------------------------------------- login

\* The loop of login over users.items(): the key of the first user whose
\* username is the given one, None when there is none
FindUser(users, username) ==
    LET hits == {i \in DOMAIN users : users[i].value.username = username}
    IN  IF hits = {} THEN None
        ELSE users[CHOOSE i \in hits : \A j \in hits : i <= j].key

\* The user id login(username, password) logs in, None when it establishes no
\* session; username is the stripped form field
LoginUser(users, username, password) ==
    LET user_id == FindUser(users, username)
    IN  IF user_id # None
           /\ check_password_hash(UserEntry(users, user_id).value.password_hash, password)
        THEN user_id
        ELSE None

Login(c, method, form_username, password) ==
    LET username == Strip(form_username)
        user_id == LoginUser(load_users, username, password)
    IN  /\ IF is_authenticated(current_user(c))
           THEN /\ resp' = Redirect("index")
                /\ UNCHANGED session
           ELSE IF method # "POST"
           THEN /\ resp' = Render("login.html", NoError)
                /\ UNCHANGED session
           ELSE IF username = <<>> \/ password = <<>>
           THEN /\ resp' = Render("login.html", "Please fill in all fields")
                /\ UNCHANGED session
           ELSE IF user_id # None
           THEN /\ session' = [session EXCEPT ![c] = user_id]
                /\ resp' = Redirect("index")
           ELSE /\ resp' = Render("login.html", "Invalid username or password")
                /\ UNCHANGED session
        /\ UNCHANGED <<usersFile, todoFiles, pc, local, addedTexts, assignedIds, registered>>

\* ---------------------------------------------------------------- register

\* UsernameTaken without lower(): an exact comparison
UsernameTaken_Exact(users, username) ==
    \E i \in DOMAIN users : users[i].value.username = username

\* The duplicate check of register: some stored username equals the new one
\* when both are lowercased
UsernameTaken(users, username) ==
    \E i \in DOMAIN users : Lower(users[i].value.username) = Lower(username)

\* The validation of register: the error message, NoError when the form passes
RegisterError(users, username, password, confirm_password) ==
    IF username = <<>> \/ password = <<>> \/ confirm_password = <<>>
    THEN "Please fill in all fields"
    ELSE IF Len(username) < 3 THEN "Username must be at least 3 characters"
    ELSE IF Len(password) < 6 THEN "Password must be at least 6 characters"
    ELSE IF password # confirm_password THEN "Passwords do not match"
    ELSE IF UsernameTaken(users, username) THEN "Username already exists"
    ELSE NoError

\* The id register gives the new user
NewUserId(users) == Str(Len(users) + 1)

\* The dict register saves
RegisterUser(users, username, password, salt, now) ==
    DictSet(users, NewUserId(users),
            [username |-> username,
             password_hash |-> generate_password_hash(password, salt),
             created_at |-> now])

Register(c, method, form_username, password, confirm_password, salt, now) ==
    LET username == Strip(form_username)
        error == RegisterError(load_users, username, password, confirm_password)
    IN  /\ IF is_authenticated(current_user(c))
           THEN /\ resp' = Redirect("index")
                /\ UNCHANGED <<usersFile, registered>>
           ELSE IF method # "POST"
           THEN /\ resp' = Render("register.html", NoError)
                /\ UNCHANGED <<usersFile, registered>>
           ELSE IF error # NoError
           THEN /\ resp' = Render("register.html", error)
                /\ UNCHANGED <<usersFile, registered>>
           ELSE /\ usersFile' = save_users(RegisterUser(load_users, username, password, salt, now))
                /\ registered' = registered \cup
                       {[username |-> form_username, password |-> password,
                         id |-> NewUserId(load_users)]}
                /\ resp' = Redirect("login")
        /\ UNCHANGED <<todoFiles, session, pc, local, addedTexts, assignedIds>>

\* ------------------------------------------------------------------ logout

Logout(c) ==
    \/ Unauthorized(c, "/logout")
    \/ /\ is_authenticated(current_user(c))
       /\ session' = [session EXCEPT ![c] = None]
       /\ resp' = Redirect("login")
       /\ UNCHANGED <<usersFile, todoFiles, pc, local, addedTexts, assignedIds, registered>>

\* ------------------------------------------------------------------ health

\* The JSON of the health check; its timestamp is left out of the response
Health(c) ==
    /\ resp' = [kind |-> "json", status |-> "healthy", version |-> "2.0.0",
                authenticated_users |-> Len(load_users)]
    /\ UNCHANGED <<usersFile, todoFiles, session, pc, local, addedTexts, assignedIds, registered>>

\* ------------------------------------------------------------------- todos

TodoIds(todos) == {todos[i].id : i \in DOMAIN todos}

\* MaxTodoId with min() for max()
MaxTodoId_Min(todos) ==
    IF todos = <<>> THEN 0
    ELSE CHOOSE m \in TodoIds(todos) : \A i \in TodoIds(todos) : m <= i

\* max([todo['id'] for todo in todos], default=0)
MaxTodoId(todos) ==
    IF todos = <<>> THEN 0
    ELSE CHOOSE m \in TodoIds(todos) : \A i \in TodoIds(todos) : i <= m

\* NewTodoId as the count of the items plus one
NewTodoId_Count(todos) == Len(todos) + 1

\* new_id of add_todo
NewTodoId(todos) == MaxTodoId(todos) + 1

\* new_todo of add_todo
NewTodo(todos, todo_text, now) ==
    [id |-> NewTodoId(todos), text |-> todo_text, completed |-> FALSE, created_at |-> now]

\* todos.append(new_todo)
AddItem(todos, todo_text, now) == Append(todos, NewTodo(todos, todo_text, now))

\* todo[key] = value on the dict of one item
SetKey(todo, key, value) ==
    [k \in DOMAIN todo \cup {key} |-> IF k = key THEN value ELSE todo[k]]

\* CompleteItem without the test of the id: stamps every item
CompleteItem_All(todos, todo_id, now) ==
    [i \in DOMAIN todos |->
        SetKey(SetKey(todos[i], "completed", TRUE), "completed_at", now)]

\* The loop of complete_todo: stamps the first item of the id, then breaks
CompleteItem(todos, todo_id, now) ==
    LET hits == {i \in DOMAIN todos : todos[i].id = todo_id}
    IN  IF hits = {} THEN todos
        ELSE LET first == CHOOSE i \in hits : \A j \in hits : i <= j
             IN  [todos EXCEPT ![first] =
                     SetKey(SetKey(todos[first], "completed", TRUE), "completed_at", now)]

\* KeepsItem with > for !=
KeepsItem_Greater(todo_id, t) == t.id > todo_id

\* [t for t in todos if t['id'] != todo_id]
KeepsItem(todo_id, t) == t.id # todo_id
DeleteItem(todos, todo_id) == SelectSeq(todos, LAMBDA t : KeepsItem(todo_id, t))

\* The history of a saved add: the text and the id it gave, under the user's id
NoteAdd(user, todo_text, id) ==
    /\ addedTexts' = [addedTexts EXCEPT ![user.id] = @ \cup {todo_text}]
    /\ assignedIds' = [assignedIds EXCEPT ![user.id] = @ \cup {id}]

Index(c) ==
    \/ Unauthorized(c, "/")
    \/ /\ is_authenticated(current_user(c))
       /\ resp' = Render("index.html", NoError)
       /\ UNCHANGED <<usersFile, todoFiles, session, pc, local, addedTexts, assignedIds, registered>>

\* add_todo with nothing running between its load and its save
AddTodo(c, form_todo, now) ==
    LET user == current_user(c)
        todo_text == Strip(form_todo)
        todos == load_todos(user)
    IN  \/ Unauthorized(c, "/add")
        \/ /\ is_authenticated(user)
           /\ IF todo_text # <<>>
              THEN /\ NewTodoId(todos) <= MaxId
                   /\ todoFiles' = save_todos(user, AddItem(todos, todo_text, now))
                   /\ NoteAdd(user, todo_text, NewTodoId(todos))
              ELSE UNCHANGED <<todoFiles, addedTexts, assignedIds, registered>>
           /\ resp' = Redirect("index")
           /\ UNCHANGED <<usersFile, session, pc, local, registered>>

\* complete_todo with nothing running between its load and its save
CompleteTodo(c, todo_id, now) ==
    LET user == current_user(c)
    IN  \/ Unauthorized(c, "/complete")
        \/ /\ is_authenticated(user)
           /\ todoFiles' = save_todos(user, CompleteItem(load_todos(user), todo_id, now))
           /\ resp' = Redirect("index")
           /\ UNCHANGED <<usersFile, session, pc, local, addedTexts, assignedIds, registered>>

\* delete_todo with nothing running between its load and its save
DeleteTodo(c, todo_id) ==
    LET user == current_user(c)
    IN  \/ Unauthorized(c, "/delete")
        \/ /\ is_authenticated(user)
           /\ todoFiles' = save_todos(user, DeleteItem(load_todos(user), todo_id))
           /\ resp' = Redirect("index")
           /\ UNCHANGED <<usersFile, session, pc, local, addedTexts, assignedIds, registered>>

\* ------------------------------------- todo requests that run concurrently
\* A todo request in two steps, as the code takes them: it resolves its user
\* and loads the whole list, changes the list in memory (Begin...), and later
\* saves the whole list and answers (Commit).  Requests of other clients run
\* between the two.  A client has one such request in flight at a time; pc is
\* "done" once it is answered, and local then still holds what it saved.

Begin(c, route, user, loaded, todos, text) ==
    /\ pc[c] # "loaded"
    /\ is_authenticated(user)
    /\ pc' = [pc EXCEPT ![c] = "loaded"]
    /\ local' = [local EXCEPT ![c] =
                   [route |-> route, user |-> user, loaded |-> loaded,
                    todos |-> todos, text |-> text]]
    /\ UNCHANGED <<usersFile, todoFiles, session, resp, addedTexts, assignedIds, registered>>

BeginAdd(c, form_todo, now) ==
    LET user == current_user(c)
        todos == load_todos(user)
    IN  /\ Strip(form_todo) # <<>>
        /\ NewTodoId(todos) <= MaxId
        /\ Begin(c, "add", user, todos, AddItem(todos, Strip(form_todo), now), Strip(form_todo))

BeginComplete(c, todo_id, now) ==
    LET user == current_user(c)
        todos == load_todos(user)
    IN  Begin(c, "complete", user, todos, CompleteItem(todos, todo_id, now), <<>>)

BeginDelete(c, todo_id) ==
    LET user == current_user(c)
        todos == load_todos(user)
    IN  Begin(c, "delete", user, todos, DeleteItem(todos, todo_id), <<>>)

\* Commit of an add that loads the list again and appends to what it finds
Commit_Reload(c) ==
    LET user == local[c].user
        mine == local[c].todos[Len(local[c].todos)]
        todos == IF local[c].route = "add"
                 THEN AddItem(load_todos(user), mine.text, mine.created_at)
                 ELSE local[c].todos
    IN  /\ pc[c] = "loaded"
        /\ todoFiles' = save_todos(user, todos)
        /\ IF local[c].route = "add"
           THEN NoteAdd(user, local[c].text, todos[Len(todos)].id)
           ELSE UNCHANGED <<addedTexts, assignedIds>>
        /\ resp' = Redirect("index")
        /\ pc' = [pc EXCEPT ![c] = "done"]
        /\ UNCHANGED <<usersFile, session, local, registered>>

\* save_todos(todos) and the redirect that end a todo request
Commit(c) ==
    /\ pc[c] = "loaded"
    /\ todoFiles' = save_todos(local[c].user, local[c].todos)
    /\ IF local[c].route = "add"
       THEN NoteAdd(local[c].user, local[c].text, local[c].todos[Len(local[c].todos)].id)
       ELSE UNCHANGED <<addedTexts, assignedIds, registered>>
    /\ resp' = Redirect("index")
    /\ pc' = [pc EXCEPT ![c] = "done"]
    /\ UNCHANGED <<usersFile, session, local, registered>>

\* ------------------------------------------------------ the specifications

Methods == {"GET", "POST"}

\* The form fields and timestamps the requests are enumerated over
FormUsernames == {<<"b","o","b">>, <<"B","o","b">>, <<" ","a","m","y"," ">>,
                  <<"a","l">>, <<" "," ">>, <<>>}
FormPasswords == {<<"s","e","c","r","e","t">>, <<"S","e","c","r","e","t">>,
                  <<"a","b","c">>, <<>>}
FormTodos == {<<"x">>, <<" ","y","\t">>, <<" "," ">>, <<>>}
Times == {"2024-01-01 10:00:00", "2024-01-01 10:00:01"}

TwoUsers == {<<"b","o","b">>, <<" ","a","m","y"," ">>}
OneUser == {<<"b","o","b">>}
OnePassword == {<<"s","e","c","r","e","t">>}
OneSalt == {"s1"}
OneTime == {"2024-01-01 10:00:00"}
OneTodo == {<<"x">>}

NoRequest == [kind |-> "none"]
NoLocal == [route |-> "none"]

Init ==
    /\ usersFile = NoFile
    /\ todoFiles = <<>>
    /\ session = [c \in Clients |-> None]
    /\ resp = NoRequest
    /\ pc = [c \in Clients |-> "idle"]
    /\ local = [c \in Clients |-> NoLocal]
    /\ addedTexts = [u \in UserIds |-> {}]
    /\ assignedIds = [u \in UserIds |-> {}]
    /\ registered = {}

\* The requests about users and sessions, over the given form fields
AuthRequest(c, methods, usernames, passwords, salts, times) ==
    \/ \E m \in methods, u \in usernames, p \in passwords : Login(c, m, u, p)
    \/ \E m \in methods, u \in usernames, p \in passwords, cp \in passwords,
          s \in salts, now \in times : Register(c, m, u, p, cp, s, now)
    \/ Logout(c)
    \/ Health(c)

\* The todo requests, each run from its load to its save in one step
TodoRequest(c, texts, times, ids) ==
    \/ Index(c)
    \/ \E x \in texts, now \in times : AddTodo(c, x, now)
    \/ \E id \in ids, now \in times : CompleteTodo(c, id, now)
    \/ \E id \in ids : DeleteTodo(c, id)

\* The todo requests in two steps
TodoStep(c, texts, times, ids) ==
    \/ \E x \in texts, now \in times : BeginAdd(c, x, now)
    \/ \E id \in ids, now \in times : BeginComplete(c, id, now)
    \/ \E id \in ids : BeginDelete(c, id)
    \/ Commit(c)

\* Requests served one at a time: one user and one browser, every todo form
Next ==
    \E c \in {"c1"} :
        \/ AuthRequest(c, Methods, OneUser, OnePassword, OneSalt, OneTime)
        \/ TodoRequest(c, FormTodos, Times, 1..MaxId)

Spec == Init /\ [][Next]_vars

\* Requests served one at a time: every registration and login form
NextAuth ==
    \E c \in {"c1"} :
        \/ AuthRequest(c, {"POST"}, FormUsernames, FormPasswords, Salts, OneTime)
        \/ TodoRequest(c, {<<" ">>}, OneTime, {1})

SpecAuth == Init /\ [][NextAuth]_vars

\* Requests served one at a time: two users and two browsers
NextIso ==
    \E c \in Clients :
        \/ AuthRequest(c, {"POST"}, TwoUsers, OnePassword, OneSalt, OneTime)
        \/ TodoRequest(c, OneTodo, OneTime, {1, 2})

SpecIso == Init /\ [][NextIso]_vars

\* Todo requests of two browsers of one user interleaved between load and save
NextConc ==
    \E c \in Clients :
        \/ \E u \in OneUser, p \in OnePassword, s \in OneSalt, now \in OneTime :
              Register(c, "POST", u, p, p, s, now)
        \/ \E u \in OneUser, p \in OnePassword : Login(c, "POST", u, p)
        \/ TodoStep(c, {<<"x">>, <<"y">>}, OneTime, {1})

SpecConc == Init /\ [][NextConc]_vars

\* ------------------------------------------------------------- properties

\* list() of the user with the given id: what load_todos gives that user
ListOf(id) == load_todos([is_authenticated |-> TRUE, id |-> id])

\* The client's session names a stored user
LoggedIn(c) == session[c] # None /\ session[c] \in UserKeys(load_users)

UniqueIds(todos) ==
    \A i, j \in DOMAIN todos : i # j => todos[i].id # todos[j].id

\* t is x without its leading and trailing whitespace
IsTrimOf(t, x) ==
    /\ \A k \in {1, Len(t)} \cap DOMAIN t : t[k] \notin Whitespace
    /\ \E lo \in 0..Len(x) :
          /\ lo + Len(t) <= Len(x)
          /\ \A k \in 1..lo : x[k] \in Whitespace
          /\ \A k \in DOMAIN t : x[lo + k] = t[k]
          /\ \A k \in (lo + Len(t) + 1)..Len(x) : x[k] \in Whitespace

\* C5: no two items of a user's stored todo list have the same id.
C5_UniqueIds == \A id \in UserIds : UniqueIds(ListOf(id))

\* C5: a user's list holds two items, the second added after the first.
C5_Witness ==
    \E id \in UserIds : Len(ListOf(id)) >= 2 /\ addedTexts[id] # {}

\* A step appended one item to the list of user id
Appended(id) ==
    /\ Len(ListOf(id)') = Len(ListOf(id)) + 1
    /\ SubSeq(ListOf(id)', 1, Len(ListOf(id))) = ListOf(id)

\* C6 as claimed: the id an add gives is greater than every id an earlier add
\* gave that user, deleted items included.
C6_Original ==
    [][\A id \in UserIds :
          Appended(id) =>
             \A old \in assignedIds[id] : ListOf(id)'[Len(ListOf(id)')].id > old]_vars

\* C6 as amended: the id an add gives is greater than every id in the user's
\* stored list at the time of the add, and is 1 on an empty list.
C6_GreaterThanStored ==
    [][\A id \in UserIds :
          Appended(id) =>
             /\ \A k \in DOMAIN ListOf(id) :
                   ListOf(id)'[Len(ListOf(id)')].id > ListOf(id)[k].id
             /\ ListOf(id) = <<>> => ListOf(id)'[1].id = 1]_vars

\* C6: two adds of different texts were saved for a user to whom only the id 1
\* was ever given: the second add gave the id of a deleted item again.
C6_Witness ==
    \E id \in UserIds :
        /\ Cardinality(addedTexts[id]) = 2
        /\ assignedIds[id] = {1}
        /\ Len(ListOf(id)) = 1

\* What C7 asks of one add request of a logged-in client
AddContract(c, x, now) ==
    LET before == ListOf(session[c])
        after == ListOf(session[c])'
    IN  IF \A k \in DOMAIN x : x[k] \in Whitespace
        THEN todoFiles' = todoFiles
        ELSE /\ Len(after) = Len(before) + 1
             /\ \A k \in DOMAIN before : after[k] = before[k]
             /\ IsTrimOf(after[Len(after)].text, x)
             /\ after[Len(after)].completed = FALSE
             /\ after[Len(after)].created_at = now
             /\ \A k \in DOMAIN before : after[Len(after)].id > before[k].id
             /\ \/ before = <<>> /\ after[Len(after)].id = 1
                \/ \E k \in DOMAIN before : after[Len(after)].id = before[k].id + 1

\* C7: an add of blank text leaves the stored list as it is; any other add
\* appends exactly one item with the trimmed text, completed false and the id
\* max + 1, and changes no item that was there.
C7_Add ==
    [][\A c \in Clients : \A x \in FormTodos : \A now \in Times :
          (LoggedIn(c) /\ AddTodo(c, x, now)) => AddContract(c, x, now)]_vars

\* C7: an add of " y<tab>" on an empty list was saved: list() is one item with
\* the text "y", not completed.
C7_Witness ==
    \E id \in UserIds :
        /\ Len(ListOf(id)) = 1
        /\ ListOf(id)[1].text = <<"y">>
        /\ ListOf(id)[1].completed = FALSE
        /\ ListOf(id)[1].id = 1
        /\ addedTexts[id] = {<<"y">>}
        /\ resp = Redirect("index")

\* What C8 asks of one complete request of a logged-in client
CompleteContract(c, todo_id) ==
    LET before == ListOf(session[c])
        after == ListOf(session[c])'
    IN  IF \E k \in DOMAIN before : before[k].id = todo_id
        THEN /\ Len(after) = Len(before)
             /\ \A k \in DOMAIN before :
                   IF before[k].id = todo_id
                   THEN /\ after[k].completed = TRUE
                        /\ after[k].id = before[k].id
                        /\ after[k].text = before[k].text
                        /\ after[k].created_at = before[k].created_at
                   ELSE after[k] = before[k]
        ELSE after = before

\* No step turns a completed item that stays in its list into an open one
StaysCompleted ==
    \A id \in UserIds :
        \A i \in DOMAIN ListOf(id) : \A j \in DOMAIN ListOf(id)' :
            (ListOf(id)[i].id = ListOf(id)'[j].id /\ ListOf(id)[i].completed)
            => ListOf(id)'[j].completed

\* C8: complete sets completed on the item of the id and leaves every other
\* item, the length and the order as they were; without such an item the list
\* stays as it was; no request resets completed to false.
C8_Complete ==
    [][/\ \A c \in Clients : \A todo_id \in 1..MaxId : \A now \in Times :
             (LoggedIn(c) /\ CompleteTodo(c, todo_id, now))
             => CompleteContract(c, todo_id)
       /\ StaysCompleted]_vars

\* C8: of two stored items the second was completed and the first was not.
C8_Witness ==
    \E id \in UserIds :
        /\ Len(ListOf(id)) = 2
        /\ ~ListOf(id)[1].completed
        /\ ListOf(id)[2].completed
        /\ "completed_at" \in DOMAIN ListOf(id)[2]

\* What C9 asks of one delete request of a logged-in client
DeleteContract(c, todo_id) ==
    LET before == ListOf(session[c])
        after == ListOf(session[c])'
    IN  IF \E k \in DOMAIN before : before[k].id = todo_id
        THEN /\ Len(after) = Len(before) - 1
             /\ \E k \in DOMAIN before :
                   /\ before[k].id = todo_id
                   /\ after = SubSeq(before, 1, k - 1) \o SubSeq(before, k + 1, Len(before))
        ELSE after = before

\* C9: delete removes exactly the item of the id, the length drops by one and
\* the other items keep their order; without such an item the list stays as it
\* was.
C9_Delete ==
    [][\A c \in Clients : \A todo_id \in 1..MaxId :
          (LoggedIn(c) /\ DeleteTodo(c, todo_id)) => DeleteContract(c, todo_id)]_vars

\* C9: the first of two items was deleted: the list is the item of id 2 alone.
C9_Witness ==
    \E id \in UserIds :
        /\ Len(ListOf(id)) = 1
        /\ ListOf(id)[1].id = 2
        /\ assignedIds[id] = {1, 2}

\* Every item list() gives a user carries a text added under that user's session
OwnItemsOnly ==
    \A id \in UserIds :
        \A k \in DOMAIN ListOf(id) : ListOf(id)[k].text \in addedTexts[id]

\* A todo request of client c leaves the list and the file of every user other
\* than the one of c's session as they were
OthersUntouched(c) ==
    \A id \in UserIds :
        id # session[c] =>
            /\ ListOf(id)' = ListOf(id)
            /\ (TodoPath(id) \in DOMAIN todoFiles') = (TodoPath(id) \in DOMAIN todoFiles)

\* C1: a todo request under the session of user U changes the list of no other
\* user (a step that leaves every file as it was changes none), and list()
\* gives U only items that were added under U's session.
C1_Isolation ==
    /\ []OwnItemsOnly
    /\ [][todoFiles' # todoFiles =>
             \A c \in Clients :
                TodoRequest(c, OneTodo, OneTime, {1, 2}) => OthersUntouched(c)]_vars

\* C1: two users are logged in at once and their stored lists differ in length.
C1_Witness ==
    /\ session["c1"] = Str(1)
    /\ session["c2"] = Str(2)
    /\ Len(ListOf(Str(1))) = 1
    /\ Len(ListOf(Str(2))) = 2

\* C4: a list, add, complete or delete request of a client without a session
\* is answered by a redirect to login and changes neither a todo list nor the
\* user store; a todo file changes only while some client holds a session.
C4_LoginRequired ==
    [][/\ \A c \in Clients :
             (session[c] = None /\ TodoRequest(c, OneTodo, OneTime, {1, 2}))
             => /\ resp'.kind = "redirect"
                /\ resp'.to = "login"
                /\ todoFiles' = todoFiles
                /\ usersFile' = usersFile
       /\ todoFiles' # todoFiles =>
             \E c \in Clients :
                /\ LoggedIn(c)
                /\ \A id \in UserIds : id # session[c] => ListOf(id)' = ListOf(id)]_vars

\* C4: with a todo stored and every client logged out, an add request was
\* answered by the redirect to login.
C4_Witness ==
    /\ \A c \in Clients : session[c] = None
    /\ \E id \in UserIds : ListOf(id) # <<>>
    /\ resp = [kind |-> "redirect", to |-> "login", next |-> "/add"]

\* Two usernames are equal when case is ignored
SameIgnoringCase(a, b) ==
    /\ Len(a) = Len(b)
    /\ \A k \in DOMAIN a : LowerChar(a[k]) = LowerChar(b[k])

\* The username, ignoring case, is the username of a stored user
StoredIgnoringCase(username) ==
    \E i \in DOMAIN load_users : SameIgnoringCase(load_users[i].value.username, username)

NoDuplicateUsernames ==
    \A i, j \in DOMAIN load_users :
        i # j => ~SameIgnoringCase(load_users[i].value.username, load_users[j].value.username)

\* The trimmed form of a form field, found by search
TrimOf(x) ==
    CHOOSE t \in {SubSeq(x, lo, hi) : lo \in 1..(Len(x) + 1), hi \in 0..Len(x)} :
        IsTrimOf(t, x)

\* C2: a register request whose trimmed username equals, ignoring case, the
\* username of a stored user leaves the user store as it was (no step that
\* changes the store is such a request), and no two stored users have
\* usernames that are equal ignoring case.
C2_DuplicateRejected ==
    /\ []NoDuplicateUsernames
    /\ [][usersFile' # usersFile =>
             \A c \in Clients : \A u \in FormUsernames :
                StoredIgnoringCase(TrimOf(u)) =>
                   \A p \in FormPasswords : \A cp \in FormPasswords :
                   \A s \in Salts : \A now \in OneTime :
                      ~Register(c, "POST", u, p, cp, s, now)]_vars

\* C2: with "bob" and "amy" stored, a registration was refused because its
\* username was taken.
C2_Witness ==
    /\ Len(load_users) = 2
    /\ load_users[1].value.username = <<"b","o","b">>
    /\ resp = Render("register.html", "Username already exists")

\* The step was answered as login answers a form: by the login page with an
\* error or by the redirect to the index page (every login step is such a step)
LoginAnswered ==
    \/ resp' = Redirect("index")
    \/ resp'.kind = "render" /\ resp'.template = "login.html" /\ resp'.error # NoError

\* C3: a logged-out client that logs in with a username and password register
\* accepted gets the session of the id register gave that user, and with that
\* username and any other password gets no session.
C3_LoginAfterRegister ==
    /\ [](\A r \in registered :
            /\ LoginUser(load_users, TrimOf(r.username), r.password) = r.id
            /\ \A p \in FormPasswords \ {r.password} :
                  LoginUser(load_users, TrimOf(r.username), p) = None)
    /\ [][LoginAnswered =>
             \A c \in Clients : \A r \in registered :
                session[c] = None =>
                   /\ Login(c, "POST", r.username, r.password)
                      => session'[c] = r.id /\ resp' = Redirect("index")
                   /\ \A p \in FormPasswords \ {r.password} :
                         Login(c, "POST", r.username, p) => session'[c] = None]_vars

\* C3: the first of two registered users is logged in, with the id register
\* gave it.
C3_Witness ==
    /\ Cardinality(registered) = 2
    /\ \E r \in registered :
          /\ r.id = Str(1)
          /\ r.username = <<" ","a","m","y"," ">>
          /\ session["c1"] = r.id
    /\ resp = Redirect("index")

\* Both clients have been answered for an add they began from the same stored
\* list of the same user
TwoAddsFromOneList(c1, c2) ==
    /\ c1 # c2
    /\ pc[c1] = "done" /\ pc[c2] = "done"
    /\ local[c1].route = "add" /\ local[c2].route = "add"
    /\ local[c1].user.id = local[c2].user.id
    /\ local[c1].loaded = local[c2].loaded

\* C10: when two add requests of one user that loaded the same list of length
\* n have both been answered, the stored list is the list one of them saved:
\* its length is n + 1, not n + 2, and the item of the other is lost.
C10_LostUpdate ==
    \A c1, c2 \in Clients :
        TwoAddsFromOneList(c1, c2) =>
            /\ Len(ListOf(local[c1].user.id)) = Len(local[c1].loaded) + 1
            /\ ListOf(local[c1].user.id) \in {local[c1].todos, local[c2].todos}

\* C10: two adds of different texts, begun from the same list, were both saved
\* and answered, and the stored list holds the text of only one of them.
C10_Witness ==
    \E c1, c2 \in Clients :
        /\ TwoAddsFromOneList(c1, c2)
        /\ local[c1].text # local[c2].text
        /\ {local[c1].text, local[c2].text} \subseteq addedTexts[local[c1].user.id]
        /\ resp = Redirect("index")
        /\ \A k \in DOMAIN ListOf(local[c1].user.id) :
              ListOf(local[c1].user.id)[k].text # local[c1].text

====
